---------------------------- MODULE Spec2Model ----------------------------
(***************************************************************************)
(* structviz3d-api: the binary STL -> glTF/GLB transcoder                  *)
(* (stl_to_gltf_custom) and the upload handler (convert_stl_to_gltf) of    *)
(* src/main.py.                                                            *)
(*                                                                         *)
(* Numbers.  A coordinate is an exact rational kept as a record            *)
(* [w, q, r] standing for  w + (q + r/SubDiv) / Scale  with w an integer,  *)
(* q in 0..Scale-1 and r in 0..SubDiv-1 (a floor representation: the value *)
(* is negative exactly when w < 0).  A value with r = 0 is a multiple of   *)
(* 1/Scale, which is what the code's quantization produces.                *)
(***************************************************************************)
EXTENDS Integers, Sequences, FiniteSets, TLC

\* ------------------------------------------------------------------ bounds
MaxFaces == 2
SubDiv == 10

\* ------------------------------------------------- constants of the program
header_bytes == 80
unsigned_long_int_bytes == 4
float_bytes == 4
spacer_bytes == 2
Scale == 100000
Sentinel == 9999999
f_precision == 6
glb_magic == 1179937895
json_magic == 1313821514
bin_magic == 5130562
glb_version == 2

vec3_bytes == 4 * 3
facet_bytes == vec3_bytes * 3 + spacer_bytes + vec3_bytes

\* ------------------------------------------------------------------ numbers
Num(w, q, r) == [w |-> w, q |-> q, r |-> r]
IntNum(n) == Num(n, 0, 0)

Lt(a, b) ==
    \/ a.w < b.w
    \/ a.w = b.w /\ a.q < b.q
    \/ a.w = b.w /\ a.q = b.q /\ a.r < b.r

\* x = int(x * 100000) / 100000: int() truncates toward zero.
Quantize(x) ==
    IF x.r = 0 THEN x
    ELSE IF x.w >= 0 THEN Num(x.w, x.q, 0)
    ELSE IF x.q + 1 = Scale THEN Num(x.w + 1, 0, 0)
    ELSE Num(x.w, x.q + 1, 0)

QuantizeVertex(v) == <<Quantize(v[1]), Quantize(v[2]), Quantize(v[3])>>

\* ------------------------------------------------------------- input file
\* A binary STL file on disk: `head` is how many of the first 84 bytes
\* (80-byte header + uint32 facet count) are present, `number_faces` the
\* declared count, `records` the 50-byte facet records present (each the 12
\* floats normal, v1, v2, v3 and the attribute word) and `extra` the number
\* of bytes left over after the last whole record.
StlFile(head, count, records, extra) ==
    [head |-> head, number_faces |-> count, records |-> records, extra |-> extra]

\* os.path.getsize(binary_stl_path)
getsize(stl) == stl.head + Len(stl.records) * facet_bytes + stl.extra

\* header_bytes + unsigned_long_int_bytes + number_faces * (...)
stl_assume_bytes(number_faces) ==
    header_bytes + unsigned_long_int_bytes + number_faces * facet_bytes

\* The concatenation of a sequence of sequences.
RECURSIVE Flatten(_)
Flatten(ss) ==
    IF Len(ss) = 0 THEN <<>>
    ELSE IF Len(ss) = 1 THEN ss[1]
    ELSE LET h == Len(ss) \div 2
         IN  Flatten(SubSeq(ss, 1, h)) \o Flatten(SubSeq(ss, h + 1, Len(ss)))

\* A reader that only asks for the file to be at least as large as the
\* declared count implies, and takes the first number_faces records.
ReadStlAtLeast(stl) ==
    IF stl.head < header_bytes + unsigned_long_int_bytes
    THEN [ok |-> FALSE, error |-> "struct.error"]
    ELSE IF stl_assume_bytes(stl.number_faces) > getsize(stl)
    THEN [ok |-> FALSE, error |-> "STL is not binary or is ill-formatted"]
    ELSE [ok |-> TRUE, number_faces |-> stl.number_faces,
          data |-> Flatten(SubSeq(stl.records, 1, stl.number_faces))]

\* Lines 62-81: seek past the header, read and unpack the count, compare the
\* implied size with the real one, unpack the facet floats.  f.read(4) on a
\* file shorter than 84 bytes yields fewer than 4 bytes and struct.unpack
\* raises; struct.unpack of the body raises when the bytes read are not
\* exactly 50 * number_faces.
ReadStl(stl) ==
    IF stl.head < header_bytes + unsigned_long_int_bytes
    THEN [ok |-> FALSE, error |-> "struct.error"]
    ELSE IF stl_assume_bytes(stl.number_faces) # getsize(stl)
    THEN [ok |-> FALSE, error |-> "STL is not binary or is ill-formatted"]
    ELSE IF Len(stl.records) # stl.number_faces \/ stl.extra # 0
    THEN [ok |-> FALSE, error |-> "struct.error"]
    ELSE [ok |-> TRUE, number_faces |-> stl.number_faces,
          data |-> Flatten(stl.records)]

\* ----------------------------------------------------------------- welding
\* The welder's working state.  `vertices` is the dict (quantized tuple ->
\* index) as a function, `indices` the index list.
WeldStart ==
    [vertices |-> <<>>, indices |-> <<>>, vertices_length_counter |-> 0,
     minx |-> IntNum(Sentinel), maxx |-> IntNum(-Sentinel),
     miny |-> IntNum(Sentinel), maxy |-> IntNum(-Sentinel),
     minz |-> IntNum(Sentinel), maxz |-> IntNum(-Sentinel)]

\* vertices[tuple_xyz] = vertices_length_counter  (an existing key keeps its
\* place in the dict and gets the new value)
DictSet(d, k, v) == [kk \in (DOMAIN d) \cup {k} |-> IF kk = k THEN v ELSE d[kk]]

\* if x < minx: minx = x      if x > maxx: maxx = x
MinOf(cur, x) == IF Lt(x, cur) THEN x ELSE cur
MaxOf(cur, x) == IF Lt(cur, x) THEN x ELSE cur

\* The loop body with the lookup lost: every visit takes a new index.
WeldStepReassign(s, v) ==
    LET tuple_xyz == QuantizeVertex(v)
    IN  [vertices |-> DictSet(s.vertices, tuple_xyz, s.vertices_length_counter),
         indices |-> Append(s.indices, s.vertices_length_counter),
         vertices_length_counter |-> s.vertices_length_counter + 1,
         minx |-> MinOf(s.minx, tuple_xyz[1]), maxx |-> MaxOf(s.maxx, tuple_xyz[1]),
         miny |-> MinOf(s.miny, tuple_xyz[2]), maxy |-> MaxOf(s.maxy, tuple_xyz[2]),
         minz |-> MinOf(s.minz, tuple_xyz[3]), maxz |-> MaxOf(s.maxz, tuple_xyz[3])]

\* One pass of the inner loop body (lines 85-105) on the raw vertex v.
WeldStep(s, v) ==
    LET tuple_xyz == QuantizeVertex(v)
        known == tuple_xyz \in DOMAIN s.vertices
        vertices == IF known THEN s.vertices
                    ELSE DictSet(s.vertices, tuple_xyz, s.vertices_length_counter)
    IN  [vertices |-> vertices,
         indices |-> Append(s.indices, vertices[tuple_xyz]),
         vertices_length_counter |->
             IF known THEN s.vertices_length_counter
             ELSE s.vertices_length_counter + 1,
         minx |-> MinOf(s.minx, tuple_xyz[1]), maxx |-> MaxOf(s.maxx, tuple_xyz[1]),
         miny |-> MinOf(s.miny, tuple_xyz[2]), maxy |-> MaxOf(s.maxy, tuple_xyz[2]),
         minz |-> MinOf(s.minz, tuple_xyz[3]), maxz |-> MaxOf(s.maxz, tuple_xyz[3])]

\* data[i + j : i + j + 3] (0-based i, j) as a raw vertex
VertexAt(data, i, j) == <<data[i + j + 1], data[i + j + 2], data[i + j + 3]>>

\* The loop position after (i, j): j runs 3, 6, 9 inside i = 0, 13, 26, ...
NextPos(i, j) == IF j + 3 < 12 THEN <<i, j + 3>> ELSE <<i + 13, 3>>

\* The whole double loop of lines 83-105 from position (i, j) on.
RECURSIVE WeldFrom(_, _, _, _)
WeldFrom(s, data, i, j) ==
    IF i >= Len(data) THEN s
    ELSE WeldFrom(WeldStep(s, VertexAt(data, i, j)), data,
                  NextPos(i, j)[1], NextPos(i, j)[2])

\* -------------------------------------------------------------- formatting
\* Text is a sequence of tokens: a token is one blank (" "), one line break
\* (NL), one character of a formatted number, a conversion specification of
\* the template ("%s", "%d", "%f"), one of the punctuation marks [ ] { } , :
\* or a run of other characters.
NL == "\n"
Sp(n) == [i \in 1..n |-> " "]

DigitChar(d) == <<"0", "1", "2", "3", "4", "5", "6", "7", "8", "9">>[d + 1]

RECURSIVE DecDigits(_)
DecDigits(n) ==
    IF n < 10 THEN <<DigitChar(n)>>
    ELSE Append(DecDigits(n \div 10), DigitChar(n % 10))

RECURSIVE FixedDigits(_, _)
FixedDigits(n, width) ==
    IF width = 0 THEN <<>>
    ELSE Append(FixedDigits(n \div 10, width - 1), DigitChar(n % 10))

RECURSIVE Pow10(_)
Pow10(k) == IF k = 0 THEN 1 ELSE 10 * Pow10(k - 1)

\* '%d' % n
FormatD(n) == IF n < 0 THEN <<"-">> \o DecDigits(-n) ELSE DecDigits(n)

\* '%f' % v for v a multiple of 1/Scale: sign, integer part, ".", and
\* f_precision decimals.
FormatF(v) ==
    LET neg == v.w < 0
        whole == IF ~neg THEN v.w ELSE IF v.q = 0 THEN -v.w ELSE -v.w - 1
        frac == IF ~neg \/ v.q = 0 THEN v.q ELSE Scale - v.q
    IN  (IF neg THEN <<"-">> ELSE <<>>)
        \o DecDigits(whole) \o <<".">>
        \o FixedDigits(frac * (Pow10(f_precision) \div Scale), f_precision)

\* The template of lines 120-190, line by line.
Template ==
    <<NL>>
 \o <<"{", NL>>
 \o Sp(2) \o <<"\"scenes\"", " ", ":", " ", "[", NL>>
 \o Sp(4) \o <<"{", NL>>
 \o Sp(6) \o <<"\"nodes\"", " ", ":", " ", "[", " ", "0", " ", "]", NL>>
 \o Sp(4) \o <<"}", NL>>
 \o Sp(2) \o <<"]", ",", NL>>
 \o <<NL>>
 \o Sp(2) \o <<"\"nodes\"", " ", ":", " ", "[", NL>>
 \o Sp(4) \o <<"{", NL>>
 \o Sp(6) \o <<"\"mesh\"", " ", ":", " ", "0", NL>>
 \o Sp(4) \o <<"}", NL>>
 \o Sp(2) \o <<"]", ",", NL>>
 \o <<NL>>
 \o Sp(2) \o <<"\"meshes\"", " ", ":", " ", "[", NL>>
 \o Sp(4) \o <<"{", NL>>
 \o Sp(6) \o <<"\"primitives\"", " ", ":", " ", "[", " ", "{", NL>>
 \o Sp(8) \o <<"\"attributes\"", " ", ":", " ", "{", NL>>
 \o Sp(10) \o <<"\"POSITION\"", " ", ":", " ", "1", NL>>
 \o Sp(8) \o <<"}", ",", NL>>
 \o Sp(8) \o <<"\"indices\"", " ", ":", " ", "0", NL>>
 \o Sp(6) \o <<"}", " ", "]", NL>>
 \o Sp(4) \o <<"}", NL>>
 \o Sp(2) \o <<"]", ",", NL>>
 \o <<NL>>
 \o Sp(2) \o <<"\"buffers\"", " ", ":", " ", "[", NL>>
 \o Sp(4) \o <<"{", NL>>
 \o Sp(6) \o <<"%s", NL>>
 \o Sp(6) \o <<"\"byteLength\"", " ", ":", " ", "%d", NL>>
 \o Sp(4) \o <<"}", NL>>
 \o Sp(2) \o <<"]", ",", NL>>
 \o Sp(2) \o <<"\"bufferViews\"", " ", ":", " ", "[", NL>>
 \o Sp(4) \o <<"{", NL>>
 \o Sp(6) \o <<"\"buffer\"", " ", ":", " ", "0", ",", NL>>
 \o Sp(6) \o <<"\"byteOffset\"", " ", ":", " ", "0", ",", NL>>
 \o Sp(6) \o <<"\"byteLength\"", " ", ":", " ", "%d", ",", NL>>
 \o Sp(6) \o <<"\"target\"", " ", ":", " ", "34963", NL>>
 \o Sp(4) \o <<"}", ",", NL>>
 \o Sp(4) \o <<"{", NL>>
 \o Sp(6) \o <<"\"buffer\"", " ", ":", " ", "0", ",", NL>>
 \o Sp(6) \o <<"\"byteOffset\"", " ", ":", " ", "%d", ",", NL>>
 \o Sp(6) \o <<"\"byteLength\"", " ", ":", " ", "%d", ",", NL>>
 \o Sp(6) \o <<"\"target\"", " ", ":", " ", "34962", NL>>
 \o Sp(4) \o <<"}", NL>>
 \o Sp(2) \o <<"]", ",", NL>>
 \o Sp(2) \o <<"\"accessors\"", " ", ":", " ", "[", NL>>
 \o Sp(4) \o <<"{", NL>>
 \o Sp(6) \o <<"\"bufferView\"", " ", ":", " ", "0", ",", NL>>
 \o Sp(6) \o <<"\"byteOffset\"", " ", ":", " ", "0", ",", NL>>
 \o Sp(6) \o <<"\"componentType\"", " ", ":", " ", "5125", ",", NL>>
 \o Sp(6) \o <<"\"count\"", " ", ":", " ", "%d", ",", NL>>
 \o Sp(6) \o <<"\"type\"", " ", ":", " ", "\"SCALAR\"", ",", NL>>
 \o Sp(6) \o <<"\"max\"", " ", ":", " ", "[", " ", "%d", " ", "]", ",", NL>>
 \o Sp(6) \o <<"\"min\"", " ", ":", " ", "[", " ", "0", " ", "]", NL>>
 \o Sp(4) \o <<"}", ",", NL>>
 \o Sp(4) \o <<"{", NL>>
 \o Sp(6) \o <<"\"bufferView\"", " ", ":", " ", "1", ",", NL>>
 \o Sp(6) \o <<"\"byteOffset\"", " ", ":", " ", "0", ",", NL>>
 \o Sp(6) \o <<"\"componentType\"", " ", ":", " ", "5126", ",", NL>>
 \o Sp(6) \o <<"\"count\"", " ", ":", " ", "%d", ",", NL>>
 \o Sp(6) \o <<"\"type\"", " ", ":", " ", "\"VEC3\"", ",", NL>>
 \o Sp(6) \o <<"\"min\"", " ", ":", " ", "[", "%f", ",", " ", "%f", ",", " ", "%f", "]", ",", NL>>
 \o Sp(6) \o <<"\"max\"", " ", ":", " ", "[", "%f", ",", " ", "%f", ",", " ", "%f", "]", NL>>
 \o Sp(4) \o <<"}", NL>>
 \o Sp(2) \o <<"]", ",", NL>>
 \o <<NL>>
 \o Sp(2) \o <<"\"asset\"", " ", ":", " ", "{", NL>>
 \o Sp(4) \o <<"\"version\"", " ", ":", " ", "\"2.0\"", NL>>
 \o Sp(2) \o <<"}", NL>>
 \o <<"}", NL>>

IsSlot(tok) == tok \in {"%s", "%d", "%f"}

\* One argument converted by its conversion specification.
ConvertArg(spec, arg) ==
    IF spec = "%s" THEN arg
    ELSE IF spec = "%d" THEN FormatD(arg)
    ELSE FormatF(arg)

\* template % args: the n-th conversion specification takes the n-th argument.
PercentFormat(template, args) ==
    LET slots == SelectSeq([k \in 1..Len(template) |-> k],
                           LAMBDA k : IsSlot(template[k]))
        nth(k) == CHOOSE n \in 1..Len(slots) : slots[n] = k
    IN  Flatten([k \in 1..Len(template) |->
                    IF IsSlot(template[k])
                    THEN ConvertArg(template[k], args[nth(k)])
                    ELSE <<template[k]>>])

\* text.replace(ch, "") for ch a blank or a line break
Replace(text, ch) == SelectSeq(text, LAMBDA tok : tok # ch)

\* ----------------------------------------------------------------- packing
\* A byte is <<"u8", n, 1>> (the value n in 0..255 of a packed integer),
\* <<"chr", token, k>> (the k-th character of a token of encoded text) or
\* <<"f32", value, k>> (the k-th byte of a packed float).
U8(n) == <<"u8", n, 1>>

\* struct.pack('<I', n)
PackI(n) ==
    <<U8(n % 256), U8((n \div 256) % 256), U8((n \div 65536) % 256),
      U8((n \div 16777216) % 256)>>

\* struct.pack('f', v)
PackF(v) == [k \in 1..float_bytes |-> <<"f32", v, k>>]

\* struct.pack('<%dI' % len(ns), *ns)
PackAllI(ns) == Flatten([k \in 1..Len(ns) |-> PackI(ns[k])])

\* struct.pack('%df' % len(vs), *vs)
PackAllF(vs) == Flatten([k \in 1..Len(vs) |-> PackF(vs[k])])

\* bytearray(text.encode()): one byte per character
Encode(text) ==
    Flatten([k \in 1..Len(text) |-> [c \in 1..Len(text[k]) |-> <<"chr", text[k], c>>]])

\* b' '
Blank == <<"chr", " ", 1>>
Blanks(n) == [k \in 1..n |-> Blank]

\* (n + 3) & ~3
Align4(n) == ((n + 3) \div 4) * 4

\* reversed_vertices = dict((v, k) for k, v in vertices.items())
reversed_vertices(vertices) ==
    [i \in {vertices[k] : k \in DOMAIN vertices} |->
        CHOOSE k \in DOMAIN vertices : vertices[k] = i]

\* [coord for vertex in [reversed_vertices[i] for i in range(n)] for coord in vertex]
flattened_vertices(vertices) ==
    Flatten([i \in 1..Cardinality(DOMAIN vertices) |->
                reversed_vertices(vertices)[i - 1]])

\* ---------------------------------------------------------------- assembly
\* The vertex section measured with the size of one float, not of a vec3.
vertices_bytelength_float(number_vertices) == number_vertices * float_bytes

\* vertices_bytelength = number_vertices * vec3_bytes
vertices_bytelength(number_vertices) == number_vertices * vec3_bytes

\* The total without the 8 bytes of the BIN chunk header.
file_len_short(body_offset, out_bin_bytelength) == body_offset + out_bin_bytelength

\* file_len = body_offset + out_bin_bytelength + 8
file_len(body_offset, out_bin_bytelength) == body_offset + out_bin_bytelength + 8

\* Lines 107-247: the layout numbers, the glTF text and the output bytes
\* from the welder's final state s.
Assemble(s, is_bin) ==
    LET number_vertices == Cardinality(DOMAIN s.vertices)
        unpadded_indices_bytelength == Len(s.indices) * unsigned_long_int_bytes
        indices_bytelength == Align4(unpadded_indices_bytelength)
        out_bin_bytelength == vertices_bytelength(number_vertices) + indices_bytelength
        out_bin_uri == IF is_bin THEN <<>>
                       ELSE <<"\"uri\"", ":", " ", "\"out.bin\"", ",">>
        formatted ==
            PercentFormat(Template,
                <<out_bin_uri, out_bin_bytelength, indices_bytelength,
                  indices_bytelength, vertices_bytelength(number_vertices),
                  Len(s.indices),
                  number_vertices - 1, number_vertices,
                  s.minx, s.miny, s.minz, s.maxx, s.maxy, s.maxz>>)
        gltf2 == IF is_bin THEN Replace(Replace(formatted, " "), NL)
                 ELSE formatted
        scene == Encode(gltf2)
        scene_len == Len(scene)
        padded_scene_len == Align4(scene_len)
        body_offset == padded_scene_len + 12 + 8
        head0 == PackI(glb_magic) \o PackI(glb_version)
                 \o PackI(file_len(body_offset, out_bin_bytelength))
                 \o PackI(padded_scene_len) \o PackI(json_magic) \o scene
        head1 == head0
                 \o (IF Len(head0) < body_offset
                     THEN Blanks(body_offset - Len(head0)) ELSE <<>>)
                 \o PackI(out_bin_bytelength) \o PackI(bin_magic)
        glb_out == (IF is_bin THEN head1 ELSE <<>>)
                   \o PackAllI(s.indices)
                   \o Blanks(indices_bytelength - unpadded_indices_bytelength)
                   \o PackAllF(flattened_vertices(s.vertices))
    IN  [gltf2 |-> gltf2, glb_out |-> glb_out]

\* ------------------------------------------------------------- file system
\* A path is the sequence of its components below the root directory; the
\* file system maps the paths that exist to a directory or to a file with
\* its content and the time of its last write.
Dir == [kind |-> "dir"]
FileOf(content, mtime) == [kind |-> "file", content |-> content, mtime |-> mtime]

join(path, name) == Append(path, name)
dirname(path) == SubSeq(path, 1, Len(path) - 1)
exists(files, path) == path = <<>> \/ path \in DOMAIN files
isdir(files, path) == path = <<>> \/ (path \in DOMAIN files /\ files[path].kind = "dir")

\* open(path, "w") ... write(content): creates or truncates the file
WriteFile(files, path, content, now) ==
    [p \in (DOMAIN files) \cup {path} |->
        IF p = path THEN FileOf(content, now) ELSE files[p]]

\* out_bin, out_gltf of lines 55-60
out_bin_path(out_path, is_bin) ==
    IF is_bin THEN out_path ELSE join(out_path, "out.bin")
out_gltf_path(out_path) == join(out_path, "out.gltf")

\* Lines 249-268: write the output file(s) and return the paths; open()
\* raises when the directory of the file does not exist.
WriteOutputs(files, out_path, is_bin, asm, now) ==
    IF ~isdir(files, dirname(out_bin_path(out_path, is_bin)))
    THEN [ok |-> FALSE, error |-> "FileNotFoundError", fs |-> files]
    ELSE LET f1 == WriteFile(files, out_bin_path(out_path, is_bin), asm.glb_out, now)
             f2 == IF is_bin THEN f1
                   ELSE WriteFile(f1, out_gltf_path(out_path), asm.gltf2, now)
         IN  [ok |-> TRUE, error |-> "", fs |-> f2]

\* A call that raises leaves the file system as it found it.
Raise(files, error) == [ok |-> FALSE, error |-> error, fs |-> files]

\* stl_to_gltf_custom as one function of the file system (lines 32-268).
stl_to_gltf_custom(files, binary_stl_path, out_path, is_bin, now) ==
    IF ~exists(files, binary_stl_path)
    THEN Raise(files, "FileNotFoundError")
    ELSE LET r == ReadStl(files[binary_stl_path].content)
         IN  IF ~r.ok THEN Raise(files, r.error)
             ELSE WriteOutputs(files, out_path, is_bin,
                               Assemble(WeldFrom(WeldStart, r.data, 0, 3), is_bin),
                               now)

\* ------------------------------------------------------------------ inputs
\* Raw vertices: P1 and P2 differ but quantize to the same triple, with
\* positive and negative coordinates off the 1/Scale grid; P3 lies beyond
\* the initial values of the bounding box.
P1 == <<Num(0, 1, 6), Num(0, 50000, 0), Num(-1, 99999, 4)>>
P2 == <<Num(0, 1, 1), Num(0, 50000, 0), Num(-1, 99999, 7)>>
P3 == <<Num(20000000, 0, 0), Num(-2, 50000, 0), Num(3, 25000, 0)>>
Triangles ==
    {<<P1, P2, P3>>, <<P3, P3, P3>>, <<P1, P1, P2>>, <<P3, P1, P2>>,
     <<P2, P3, P3>>, <<P2, P2, P2>>, <<P1, P3, P1>>, <<P3, P2, P1>>}

\* One 50-byte record: normal, three vertices, attribute word.
Facet(v1, v2, v3) ==
    <<IntNum(0), IntNum(0), IntNum(1)>> \o v1 \o v2 \o v3 \o <<0>>
Facets == {Facet(t[1], t[2], t[3]) : t \in Triangles}

SeqsUpTo(S, n) == UNION {[1..k -> S] : k \in 0..n}

WellFormedStl ==
    {StlFile(header_bytes + unsigned_long_int_bytes, Len(rs), rs, 0) :
        rs \in SeqsUpTo(Facets, MaxFaces)}

\* Files whose size is not the one the declared count implies: a count above
\* or below the records present, bytes left over, a file cut inside its
\* first 84 bytes.
IllFormedStl ==
    LET same == SeqsUpTo({Facet(P1, P2, P3)}, MaxFaces)
    IN  ({StlFile(header_bytes + unsigned_long_int_bytes, c, rs, x) :
             c \in 0..(MaxFaces + 1), rs \in same, x \in {0, 1, facet_bytes}}
           \ WellFormedStl)
        \cup {StlFile(header_bytes, 0, <<>>, 0)}

StlPath == <<"in.stl">>
SplitOut == <<"out">>
GlbOut == <<"out.glb">>
Stale == FileOf(<<>>, 0)

\* What the output location holds before the call.
PriorFiles(is_bin) ==
    IF is_bin
    THEN {<<>>, GlbOut :> Stale}
    ELSE {<<>>,
          SplitOut :> Dir,
          (SplitOut :> Dir) @@ (join(SplitOut, "out.bin") :> Stale)
              @@ (join(SplitOut, "out.gltf") :> Stale)}

\* -------------------------------------------- one call of stl_to_gltf_custom
VARIABLES fs, is_binary, out_path, pc, number_faces, data, i, j, weld, error

\* The requests of the upload handler, each with its place in the handler.
VARIABLES reqs

vars == <<fs, is_binary, out_path, pc, number_faces, data, i, j, weld, error, reqs>>
callVars == <<is_binary, out_path, pc, number_faces, data, i, j, weld, error>>

Init ==
    /\ is_binary \in BOOLEAN
    /\ out_path = IF is_binary THEN GlbOut ELSE SplitOut
    /\ \E stl \in WellFormedStl \cup IllFormedStl, prior \in PriorFiles(is_binary) :
          fs = (StlPath :> FileOf(stl, 0)) @@ prior
    /\ pc = "open"
    /\ number_faces = 0
    /\ data = <<>>
    /\ i = 0
    /\ j = 3
    /\ weld = WeldStart
    /\ error = ""
    /\ reqs = <<>>

\* Lines 62-81: open the input, read the count, check the size, unpack.
Open ==
    /\ pc = "open"
    /\ LET r == ReadStl(fs[StlPath].content)
       IN  IF r.ok
           THEN /\ number_faces' = r.number_faces
                /\ data' = r.data
                /\ pc' = "loop"
                /\ error' = error
                /\ fs' = fs
           ELSE /\ pc' = "failed"
                /\ error' = r.error
                /\ fs' = Raise(fs, r.error).fs
                /\ UNCHANGED <<number_faces, data>>
    /\ UNCHANGED <<is_binary, out_path, i, j, weld, reqs>>

\* Lines 83-105: one vertex visit.
Visit ==
    /\ pc = "loop"
    /\ i < Len(data)
    /\ weld' = WeldStep(weld, VertexAt(data, i, j))
    /\ i' = NextPos(i, j)[1]
    /\ j' = NextPos(i, j)[2]
    /\ UNCHANGED <<fs, is_binary, out_path, pc, number_faces, data, error, reqs>>

\* Lines 107-268: the loop is over; assemble and write the output.
Emit ==
    /\ pc = "loop"
    /\ i >= Len(data)
    /\ LET w == WriteOutputs(fs, out_path, is_binary, Assemble(weld, is_binary), 1)
       IN  /\ fs' = w.fs
           /\ pc' = IF w.ok THEN "done" ELSE "failed"
           /\ error' = w.error
    /\ UNCHANGED <<is_binary, out_path, number_faces, data, i, j, weld, reqs>>

Next == Open \/ Visit \/ Emit

Spec == Init /\ [][Next]_vars

\* ------------------------------------------------------ the upload handler
\* convert_stl_to_gltf (lines 271-379), one instance per request.  The files
\* of all requests live in the one directory TEMP_DIR, the root of fs.
NumReqs == 2
Reqs == 1..NumReqs

\* filename = f"{uuid.uuid4()}": a name no other request gets
uuid4(r) == "uuid" \o ToString(r)

\* str.lower() on the strings the requests carry
Lower(str) ==
    CASE str = ".STL" -> ".stl"
      [] str = "Custom" -> "custom"
      [] str = "CUSTOM-GLB" -> "custom-glb"
      [] OTHER -> str

\* os.path.join(TEMP_DIR, f"{filename}{ext}")
temp_path(filename, ext) == <<filename \o ext>>
stl_path(filename) == temp_path(filename, ".stl")
gltf_path(filename) == temp_path(filename, ".gltf")
bin_path(filename) == temp_path(filename, ".bin")
glb_path(filename) == temp_path(filename, ".glb")

\* One directory shared by every request.
gltf_dir_shared(filename) == <<"out">>

\* gltf_dir = os.path.join(TEMP_DIR, filename)
gltf_dir(filename) == <<filename>>

\* os.remove(path) / shutil.rmtree(path): the path and all below it
Remove(files, path) ==
    [p \in {x \in DOMAIN files :
               ~(Len(x) >= Len(path) /\ SubSeq(x, 1, Len(path)) = path)} |-> files[p]]

\* os.makedirs(path, exist_ok=True)
makedirs(files, path) ==
    IF exists(files, path) THEN files
    ELSE [p \in (DOMAIN files) \cup {path} |-> IF p = path THEN Dir ELSE files[p]]

\* shutil.copy(src, dst)
copy(files, src, dst, now) == WriteFile(files, dst, files[src].content, now)

\* The uploads the requests send: Scenario A's kind of file with one facet,
\* and a file whose count declares one facet more than it holds.
GoodUpload == StlFile(header_bytes + unsigned_long_int_bytes, 1, <<Facet(P1, P2, P3)>>, 0)
ShortUpload == StlFile(header_bytes + unsigned_long_int_bytes, 2, <<Facet(P1, P2, P3)>>, 0)
Uploads == {GoodUpload, ShortUpload}
Methods == {"trimesh", "Custom", "CUSTOM-GLB", "obj"}
Extensions == {".STL", ".obj"}

\* What trimesh's exporter leaves in the file it is given, as a function of
\* the mesh it loaded (the library is a black box to this program).
TrimeshGltf(upload) == <<<<"trimesh", "gltf", upload>>>>
TrimeshBin(upload) == <<<<"trimesh", "bin", upload>>>>

Idle ==
    [pc |-> "idle", ext |-> "", method |-> "", upload |-> StlFile(0, 0, <<>>, 0),
     filename |-> "", status |-> 0, detail |-> "", exc |-> ""]

ApiInit ==
    /\ reqs = [r \in Reqs |-> Idle]
    /\ fs = <<>>
    /\ is_binary = FALSE
    /\ out_path = <<>>
    /\ pc = "unused"
    /\ number_faces = 0
    /\ data = <<>>
    /\ i = 0
    /\ j = 3
    /\ weld = WeldStart
    /\ error = ""

\* The 500 answer of the except clause (line 379).
ConversionFailed(exc) == [status |-> 500, detail |-> "Conversion failed: " \o exc]

\* raise HTTPException(status_code=400, detail=...) of lines 288 and 360
BadRequest(detail) == [status |-> 400, detail |-> detail]

\* Lines 286-296: check the extension, pick the name, save the upload.
Receive(r) ==
    /\ reqs[r].pc = "idle"
    /\ \E ext \in Extensions, method \in Methods, upload \in Uploads :
          IF Lower(ext) # ".stl"
          THEN /\ reqs' = [reqs EXCEPT ![r] =
                    [@ EXCEPT !.pc = "done", !.ext = ext,
                              !.status = BadRequest("Only STL files are accepted").status,
                              !.detail = BadRequest("Only STL files are accepted").detail]]
               /\ fs' = fs
          ELSE /\ reqs' = [reqs EXCEPT ![r] =
                    [@ EXCEPT !.pc = "try", !.ext = ext, !.method = method,
                              !.upload = upload, !.filename = uuid4(r)]]
               /\ fs' = WriteFile(fs, stl_path(uuid4(r)), upload, 1)
    /\ UNCHANGED callVars

\* Lines 299-322: the trimesh branch.  trimesh.load or mesh.export may raise;
\* the export writes gltf_path and may write bin_path.
Trimesh(r) ==
    /\ reqs[r].pc = "try"
    /\ Lower(reqs[r].method) = "trimesh"
    /\ \E outcome \in {"gltf", "gltf+bin", "load raises", "export raises"} :
          LET name == reqs[r].filename
              withGltf == WriteFile(fs, gltf_path(name), TrimeshGltf(reqs[r].upload), 1)
              withBin == WriteFile(withGltf, bin_path(name), TrimeshBin(reqs[r].upload), 1)
          IN  /\ fs' = CASE outcome = "gltf" -> withGltf
                         [] outcome = "gltf+bin" -> withBin
                         [] outcome = "load raises" -> fs
                         [] outcome = "export raises" -> withGltf
              /\ reqs' = [reqs EXCEPT ![r] =
                    IF outcome \in {"gltf", "gltf+bin"}
                    THEN [@ EXCEPT !.pc = "done", !.status = 200]
                    ELSE [@ EXCEPT !.pc = "raised", !.exc = outcome]]
    /\ UNCHANGED callVars

\* Lines 324-327: the custom branch makes its working directory.
CustomMakeDir(r) ==
    /\ reqs[r].pc = "try"
    /\ Lower(reqs[r].method) = "custom"
    /\ fs' = makedirs(fs, gltf_dir(reqs[r].filename))
    /\ reqs' = [reqs EXCEPT ![r].pc = "convert"]
    /\ UNCHANGED callVars

\* Line 330: result = stl_to_gltf_custom(stl_path, gltf_dir, is_binary=False)
CustomConvert(r) ==
    /\ reqs[r].pc = "convert"
    /\ LET res == stl_to_gltf_custom(fs, stl_path(reqs[r].filename),
                                     gltf_dir(reqs[r].filename), FALSE, 1)
       IN  /\ fs' = res.fs
           /\ reqs' = [reqs EXCEPT ![r] =
                 IF res.ok THEN [@ EXCEPT !.pc = "copy_gltf"]
                 ELSE [@ EXCEPT !.pc = "raised", !.exc = res.error]]
    /\ UNCHANGED callVars

\* Line 336: shutil.copy(result["gltf_path"], gltf_path)
CopyGltf(r) ==
    /\ reqs[r].pc = "copy_gltf"
    /\ LET src == out_gltf_path(gltf_dir(reqs[r].filename))
       IN  IF exists(fs, src)
           THEN /\ fs' = copy(fs, src, gltf_path(reqs[r].filename), 1)
                /\ reqs' = [reqs EXCEPT ![r].pc = "copy_bin"]
           ELSE /\ fs' = fs
                /\ reqs' = [reqs EXCEPT ![r] =
                      [@ EXCEPT !.pc = "raised", !.exc = "FileNotFoundError"]]
    /\ UNCHANGED callVars

\* Lines 337-344: shutil.copy(result["bin_path"], bin_path) and the answer
CopyBin(r) ==
    /\ reqs[r].pc = "copy_bin"
    /\ LET src == out_bin_path(gltf_dir(reqs[r].filename), FALSE)
       IN  IF exists(fs, src)
           THEN /\ fs' = copy(fs, src, bin_path(reqs[r].filename), 1)
                /\ reqs' = [reqs EXCEPT ![r] = [@ EXCEPT !.pc = "done", !.status = 200]]
           ELSE /\ fs' = fs
                /\ reqs' = [reqs EXCEPT ![r] =
                      [@ EXCEPT !.pc = "raised", !.exc = "FileNotFoundError"]]
    /\ UNCHANGED callVars

\* shutil.copy raises (the disk is full, say) at line 336 or 337.
CopyRaises(r) ==
    /\ reqs[r].pc \in {"copy_gltf", "copy_bin"}
    /\ reqs' = [reqs EXCEPT ![r] = [@ EXCEPT !.pc = "raised", !.exc = "OSError"]]
    /\ UNCHANGED <<fs, callVars>>

\* Lines 346-357: the custom-glb branch.
GlbConvert(r) ==
    /\ reqs[r].pc = "try"
    /\ Lower(reqs[r].method) = "custom-glb"
    /\ LET res == stl_to_gltf_custom(fs, stl_path(reqs[r].filename),
                                     glb_path(reqs[r].filename), TRUE, 1)
       IN  /\ fs' = res.fs
           /\ reqs' = [reqs EXCEPT ![r] =
                 IF res.ok THEN [@ EXCEPT !.pc = "done", !.status = 200]
                 ELSE [@ EXCEPT !.pc = "raised", !.exc = res.error]]
    /\ UNCHANGED callVars

\* Lines 359-361: any other method raises HTTPException(400) inside the try.
InvalidMethod(r) ==
    /\ reqs[r].pc = "try"
    /\ Lower(reqs[r].method) \notin {"trimesh", "custom", "custom-glb"}
    /\ reqs' = [reqs EXCEPT ![r] =
          [@ EXCEPT !.pc = "raised",
                    !.exc = ToString(BadRequest("Invalid method").status) \o ": "
                            \o BadRequest("Invalid method").detail]]
    /\ UNCHANGED <<fs, callVars>>

\* The except clause without its rmtree.
CleanedUpFilesOnly(files, filename) ==
    Remove(Remove(Remove(Remove(files, stl_path(filename)), gltf_path(filename)),
                  glb_path(filename)), bin_path(filename))

\* Lines 365-377: remove the upload, the outputs and the working directory.
CleanedUp(files, filename) ==
    Remove(Remove(Remove(Remove(Remove(files, stl_path(filename)),
                                gltf_path(filename)), glb_path(filename)),
                  bin_path(filename)), gltf_dir(filename))

\* Lines 363-379: except Exception: clean up and answer 500.
Cleanup(r) ==
    /\ reqs[r].pc = "raised"
    /\ fs' = CleanedUp(fs, reqs[r].filename)
    /\ reqs' = [reqs EXCEPT ![r] =
          [@ EXCEPT !.pc = "done",
                    !.status = ConversionFailed(reqs[r].exc).status,
                    !.detail = ConversionFailed(reqs[r].exc).detail]]
    /\ UNCHANGED callVars

ApiNext ==
    \E r \in Reqs :
        \/ Receive(r)
        \/ Trimesh(r)
        \/ CustomMakeDir(r)
        \/ CustomConvert(r)
        \/ CopyGltf(r)
        \/ CopyBin(r)
        \/ CopyRaises(r)
        \/ GlbConvert(r)
        \/ InvalidMethod(r)
        \/ Cleanup(r)

ApiSpec == ApiInit /\ [][ApiNext]_vars

\* ------------------------------------------------- reading the output back
\* What a consumer of the written files sees: numbers parsed from the glTF
\* text, integers unpacked from the bytes.
DigitVal(c) == CHOOSE d \in 0..9 : DigitChar(d) = c
NumChars == {DigitChar(d) : d \in 0..9} \cup {"-", "."}
Skipped == {" ", NL, ":", "[", ","}

\* The runs of number characters from position pos up to the first token
\* that is neither part of a number nor white space, ":", "[" or ",".
RECURSIVE ReadNumbers(_, _, _, _)
ReadNumbers(doc, pos, cur, acc) ==
    LET done == IF cur = <<>> THEN acc ELSE Append(acc, cur)
    IN  IF pos > Len(doc) THEN done
        ELSE IF doc[pos] \in NumChars
        THEN ReadNumbers(doc, pos + 1, Append(cur, doc[pos]), acc)
        ELSE IF doc[pos] \in Skipped THEN ReadNumbers(doc, pos + 1, <<>>, done)
        ELSE done

\* The numbers of the value of the n-th member named key.
ValueOf(doc, key, n) ==
    LET at == SelectSeq([k \in 1..Len(doc) |-> k], LAMBDA k : doc[k] = key)
    IN  ReadNumbers(doc, at[n] + 1, <<>>, <<>>)

RECURSIVE ParseDigits(_)
ParseDigits(chars) ==
    IF chars = <<>> THEN 0
    ELSE 10 * ParseDigits(SubSeq(chars, 1, Len(chars) - 1))
         + DigitVal(chars[Len(chars)])

ParseInt(chars) ==
    IF chars[1] = "-" THEN -ParseDigits(Tail(chars)) ELSE ParseDigits(chars)

\* A decimal number with six decimals as a Num.
ParseNum(chars) ==
    LET neg == chars[1] = "-"
        body == IF neg THEN Tail(chars) ELSE chars
        dot == CHOOSE k \in 1..Len(body) : body[k] = "."
        whole == ParseDigits(SubSeq(body, 1, dot - 1))
        frac == ParseDigits(SubSeq(body, dot + 1, Len(body)))
        q == frac \div (Pow10(Len(body) - dot) \div Scale)
        r == frac % (Pow10(Len(body) - dot) \div Scale)
    IN  IF ~neg THEN Num(whole, q, r)
        ELSE IF q = 0 /\ r = 0 THEN Num(-whole, 0, 0)
        ELSE Num(-whole - 1, Scale - q, r)

UnpackI(bytes) ==
    bytes[1][2] + 256 * bytes[2][2] + 65536 * bytes[3][2] + 16777216 * bytes[4][2]

\* The glTF text of encoded bytes: the tokens whose first character is there.
Decode(bytes) ==
    LET firsts == SelectSeq(bytes, LAMBDA b : b[3] = 1)
    IN  [k \in 1..Len(firsts) |-> firsts[k][2]]

\* The written output as a consumer finds it: the glTF text and the binary
\* buffer, from the two files or from the two chunks of the GLB file.
GlbFile == fs[GlbOut].content
GlbJsonLen == UnpackI(SubSeq(GlbFile, 13, 16))
OutDoc ==
    IF is_binary THEN Decode(SubSeq(GlbFile, 21, 20 + GlbJsonLen))
    ELSE fs[out_gltf_path(SplitOut)].content
OutBin ==
    IF is_binary THEN SubSeq(GlbFile, 20 + GlbJsonLen + 8 + 1, Len(GlbFile))
    ELSE fs[out_bin_path(SplitOut, FALSE)].content

Declared(key, n) == ParseInt(ValueOf(OutDoc, key, n)[1])
DeclaredVec(key, n) ==
    LET v == ValueOf(OutDoc, key, n)
    IN  <<ParseNum(v[1]), ParseNum(v[2]), ParseNum(v[3])>>

\* ------------------------------------------------------- the input's visits
\* The input file and the vertex visits it prescribes: visit a is vertex
\* (a-1) % 3 of record (a-1) \div 3.
InStl == fs[StlPath].content
VisitsDone == IF pc = "open" THEN 0 ELSE (i \div 13) * 3 + (j - 3) \div 3
RawVisit(a) ==
    SubSeq(InStl.records[(a - 1) \div 3 + 1],
           4 + 3 * ((a - 1) % 3), 6 + 3 * ((a - 1) % 3))
KeyVisit(a) == QuantizeVertex(RawVisit(a))
KeysSeen(n) == {KeyVisit(a) : a \in 1..n}
\* The place of visit a's key in the order of first encounter, from 0.
FirstSeenRank(a) ==
    LET first == CHOOSE b \in 1..a :
                    /\ KeyVisit(b) = KeyVisit(a)
                    /\ \A c \in 1..(b - 1) : KeyVisit(c) # KeyVisit(a)
    IN  Cardinality(KeysSeen(first - 1))

\* ------------------------------------------------------------------ claims
C1_Table ==
    LET n == VisitsDone
    IN  /\ Len(weld.indices) = n
        /\ DOMAIN weld.vertices = KeysSeen(n)
        /\ {weld.vertices[k] : k \in DOMAIN weld.vertices}
               = 0..(Cardinality(KeysSeen(n)) - 1)
        /\ weld.vertices_length_counter = Cardinality(KeysSeen(n))
        /\ \A a \in 1..n :
              /\ weld.indices[a] = weld.vertices[KeyVisit(a)]
              /\ weld.indices[a] = FirstSeenRank(a)
        /\ \A a, b \in 1..n :
              (KeyVisit(a) = KeyVisit(b)) <=> (weld.indices[a] = weld.indices[b])
        /\ pc = "done" => n = 3 * InStl.number_faces

C1_Kept ==
    \A k \in DOMAIN weld.vertices :
        k \in DOMAIN weld'.vertices /\ weld'.vertices[k] = weld.vertices[k]

\* C1: at every point of the welding loop and at its end the vertex table
\* maps the distinct quantized triples seen so far onto 0..N-1 in order of
\* first encounter, the index list has one entry per visit (3 per facet at
\* the end), each entry is the index of its visit's triple, so equal triples
\* have equal entries and different triples different entries; and no step
\* changes an index once given.
C1_Welding == []C1_Table /\ [][C1_Kept]_vars

\* Two visits in different facets, of different raw vertices with the same
\* quantized triple, share an index that a third visit does not have.
C1_Witness ==
    /\ pc = "done"
    /\ \E a \in 1..3, b \in 4..VisitsDone, c \in 1..VisitsDone :
          /\ RawVisit(a) # RawVisit(b)
          /\ KeyVisit(a) = KeyVisit(b)
          /\ weld.indices[a] = weld.indices[b]
          /\ KeyVisit(c) # KeyVisit(a)
          /\ weld.indices[c] # weld.indices[a]

\* The unique vertices of the whole input and the one with a given index
\* (its place in the order of first encounter).
AllVisits == 3 * Len(InStl.records)
UniqueCount == Cardinality(KeysSeen(AllVisits))
VertexOfRank(v) ==
    KeyVisit(CHOOSE a \in 1..AllVisits : FirstSeenRank(a) = v)

\* The bytes of the buffer from..to are all of one kind.
AllOfKind(bytes, from, to, kind) ==
    \A k \in from..to : k \in 1..Len(bytes) /\ bytes[k][1] = kind

\* C2: in split and in container mode the offsets and lengths the glTF text
\* declares are those of the bytes written: the index view starts at 0 and
\* covers the packed indices and their padding, a multiple of 4 bytes; the
\* position view starts right after it and covers 12 bytes per unique
\* vertex, the vertices in index order; the buffer's length is the number of
\* binary bytes written.
C2_Layout ==
    pc = "done" =>
        LET idxLen == Declared("\"byteLength\"", 2)
            posOff == Declared("\"byteOffset\"", 2)
            posLen == Declared("\"byteLength\"", 3)
        IN  /\ Declared("\"byteOffset\"", 1) = 0
            /\ idxLen % 4 = 0
            /\ idxLen >= unsigned_long_int_bytes * AllVisits
            /\ idxLen < unsigned_long_int_bytes * AllVisits + 4
            /\ AllOfKind(OutBin, 1, unsigned_long_int_bytes * AllVisits, "u8")
            /\ \A a \in 1..AllVisits :
                  UnpackI(SubSeq(OutBin, 4 * a - 3, 4 * a)) = FirstSeenRank(a)
            /\ AllOfKind(OutBin, unsigned_long_int_bytes * AllVisits + 1, idxLen, "chr")
            /\ posOff = idxLen
            /\ posLen = vec3_bytes * UniqueCount
            /\ \A v \in 0..(UniqueCount - 1), c \in 1..3, k \in 1..float_bytes :
                  OutBin[posOff + vec3_bytes * v + float_bytes * (c - 1) + k]
                      = <<"f32", VertexOfRank(v)[c], k>>
            /\ Declared("\"byteLength\"", 1) = Len(OutBin)
            /\ Len(OutBin) = posOff + posLen
            /\ Declared("\"count\"", 1) = AllVisits
            /\ Declared("\"count\"", 2) = UniqueCount

\* A container has been written whose buffer holds six indices and two
\* welded vertices.
C2_Witness ==
    pc = "done" /\ is_binary /\ UniqueCount = 2 /\ AllVisits = 6 /\ Len(OutBin) = 48

\* C3: in container mode the header's total length is the length of the
\* file written, the JSON chunk's declared length is the number of text
\* bytes (blank-padded to a multiple of 4) between its chunk header and the
\* BIN chunk header, and the BIN chunk's declared length is the number of
\* bytes after its header up to the end of the file.
C3_Container ==
    pc = "done" /\ is_binary =>
        LET binHdr == 20 + GlbJsonLen
        IN  /\ SubSeq(GlbFile, 1, 4) = PackI(glb_magic)
            /\ SubSeq(GlbFile, 5, 8) = PackI(glb_version)
            /\ UnpackI(SubSeq(GlbFile, 9, 12)) = Len(GlbFile)
            /\ SubSeq(GlbFile, 17, 20) = PackI(json_magic)
            /\ GlbJsonLen % 4 = 0
            /\ AllOfKind(GlbFile, 21, binHdr, "chr")
            /\ AllOfKind(GlbFile, binHdr + 1, binHdr + 8, "u8")
            /\ SubSeq(GlbFile, binHdr + 5, binHdr + 8) = PackI(bin_magic)
            /\ UnpackI(SubSeq(GlbFile, binHdr + 1, binHdr + 4))
                   = Len(GlbFile) - (binHdr + 8)

\* A container whose JSON text needed padding.
C3_Witness ==
    /\ pc = "done" /\ is_binary /\ AllVisits > 0
    /\ GlbFile[20 + GlbJsonLen] = Blank

\* The true minimum and maximum of coordinate c over the first n visits.
TrueMin(n, c) ==
    LET xs == {KeyVisit(a)[c] : a \in 1..n}
    IN  CHOOSE m \in xs : \A x \in xs : ~Lt(x, m)
TrueMax(n, c) ==
    LET xs == {KeyVisit(a)[c] : a \in 1..n}
    IN  CHOOSE m \in xs : \A x \in xs : ~Lt(m, x)

\* C4: with at least one facet and coordinates of any magnitude, the running
\* bounding box is the true per-axis minimum and maximum of the quantized
\* coordinates visited so far after every visit, and the min and max
\* written to the position accessor are those of all the visits.
C4_BoundingBox ==
    LET n == VisitsDone
    IN  n >= 1 =>
          /\ weld.minx = TrueMin(n, 1) /\ weld.maxx = TrueMax(n, 1)
          /\ weld.miny = TrueMin(n, 2) /\ weld.maxy = TrueMax(n, 2)
          /\ weld.minz = TrueMin(n, 3) /\ weld.maxz = TrueMax(n, 3)
          /\ pc = "done" =>
                /\ DeclaredVec("\"min\"", 2)
                       = <<TrueMin(n, 1), TrueMin(n, 2), TrueMin(n, 3)>>
                /\ DeclaredVec("\"max\"", 2)
                       = <<TrueMax(n, 1), TrueMax(n, 2), TrueMax(n, 3)>>

\* C5: when the size of the input is not 80 + 4 + F x 50 for the declared
\* count F, the call fails with an error and writes nothing: no file is
\* created and none is overwritten.
C5_NoOutput ==
    InStl.head + Len(InStl.records) * 50 + InStl.extra
            # 80 + 4 + InStl.number_faces * 50 =>
        /\ pc \in {"open", "failed"}
        /\ pc = "failed" => error # ""
        /\ \A p \in DOMAIN fs : fs[p].kind = "file" => fs[p].mtime = 0

\* A declared count that implies more bytes than supplied has been refused
\* with older output in place.
C5_Witness ==
    /\ pc = "failed"
    /\ InStl.number_faces > Len(InStl.records)
    /\ InStl.extra = 0
    /\ out_bin_path(out_path, is_binary) \in DOMAIN fs

\* C6: for a well-formed input with no facet (84 bytes) the conversion does
\* not fail, the index and vertex sections are empty, and the document
\* carries no position min/max taken from the initial values of the
\* bounding box and no index-accessor max below its min.
C6_EmptyMesh ==
    InStl = StlFile(84, 0, <<>>, 0) =>
        /\ pc = "failed" => error = "FileNotFoundError"
        /\ pc = "done" =>
              /\ Len(OutBin) = 0
              /\ Declared("\"max\"", 1) >= Declared("\"min\"", 1)
              /\ \A c \in 1..3 :
                    /\ DeclaredVec("\"min\"", 2)[c] # IntNum(Sentinel)
                    /\ DeclaredVec("\"max\"", 2)[c] # IntNum(-Sentinel)

\* k is the multiple of 1/Scale nearest to x.
IsNearest(x, k) ==
    \/ k = Num(x.w, x.q, 0) /\ 2 * x.r <= SubDiv
    \/ /\ k = IF x.q + 1 = Scale THEN Num(x.w + 1, 0, 0) ELSE Num(x.w, x.q + 1, 0)
       /\ 2 * (SubDiv - x.r) <= SubDiv

\* C7: every coordinate, negative or positive, is quantized by rounding to
\* the nearest multiple of 0.00001, and that value is the key the vertex is
\* stored under.
C7_RoundToNearest ==
    \A a \in 1..VisitsDone, c \in 1..3 :
        IsNearest(RawVisit(a)[c],
                  reversed_vertices(weld.vertices)[weld.indices[a]][c])

\* The paths named after the file id of request r.
Belongs(r) ==
    {<<uuid4(r) \o e>> : e \in {".stl", ".gltf", ".glb", ".bin", ""}}
        \cup {<<uuid4(r), "out.bin">>, <<uuid4(r), "out.gltf">>}

\* What the conversion of the one-facet upload yields when nothing else runs.
AloneSplit == Assemble(WeldFrom(WeldStart, Flatten(GoodUpload.records), 0, 3), FALSE)
AloneGlb == Assemble(WeldFrom(WeldStart, Flatten(GoodUpload.records), 0, 3), TRUE)

HoldsFile(path, content) == path \in DOMAIN fs /\ fs[path].content = content

\* A request answered 200 has its upload and its output as if run alone.
C8_Outputs ==
    \A r \in Reqs :
        reqs[r].pc = "done" /\ reqs[r].status = 200 =>
            /\ HoldsFile(<<uuid4(r) \o ".stl">>, reqs[r].upload)
            /\ Lower(reqs[r].method) = "custom" =>
                  /\ reqs[r].upload = GoodUpload
                  /\ HoldsFile(<<uuid4(r) \o ".gltf">>, AloneSplit.gltf2)
                  /\ HoldsFile(<<uuid4(r) \o ".bin">>, AloneSplit.glb_out)
            /\ Lower(reqs[r].method) = "custom-glb" =>
                  /\ reqs[r].upload = GoodUpload
                  /\ HoldsFile(<<uuid4(r) \o ".glb">>, AloneGlb.glb_out)
            /\ Lower(reqs[r].method) = "trimesh" =>
                  HoldsFile(<<uuid4(r) \o ".gltf">>, TrimeshGltf(reqs[r].upload))

\* A step creates, changes or removes only paths of the request taking it.
C8_Step ==
    \A p \in (DOMAIN fs) \cup (DOMAIN fs') :
        (p \notin DOMAIN fs \/ p \notin DOMAIN fs' \/ fs'[p] # fs[p]) =>
            \E r \in Reqs : p \in Belongs(r) /\ reqs'[r] # reqs[r]

C9_Cleanup ==
    \A r \in Reqs :
        reqs[r].pc = "done" /\ reqs[r].filename # "" /\ reqs[r].status # 200 =>
            \A p \in DOMAIN fs : p \notin Belongs(r)

\* A custom conversion failed at its last copy, with the working directory,
\* its two files and the copied .gltf in place, and has answered.
C9_Witness ==
    \E r \in Reqs :
        /\ reqs[r].pc = "done" /\ reqs[r].status = 500
        /\ reqs[r].exc = "OSError" /\ reqs[r].upload = GoodUpload

\* C10: a request for a *.stl file with a method other than trimesh, custom
\* or custom-glb (in any case) is answered 400 "Invalid method", not 500.
C10_InvalidMethod ==
    \A r \in Reqs :
        /\ reqs[r].pc = "done"
        /\ Lower(reqs[r].ext) = ".stl"
        /\ Lower(reqs[r].method) \notin {"trimesh", "custom", "custom-glb"}
        => reqs[r].status = 400 /\ reqs[r].detail = "Invalid method"

====
